---- MODULE Spec2Model ----
(***************************************************************************)
(* A model of src/functions/cost_tracking_util.py: the pricing resolver    *)
(* (ModelCostManager), the cost calculator (CostCalculationManager), the   *)
(* usage recorder (UsagePersistenceManager.log_usage_fact) and the         *)
(* tracking coordinator (CostTrackingManager) with the two background      *)
(* tasks it hands to the event loop.                                       *)
(*                                                                         *)
(* Python str values are TLA+ strings; a Decimal is a record [c, e] of a   *)
(* coefficient and an exponent, its value being c * 10^e; a dict is a      *)
(* function from its keys, the empty dict the function of empty domain.    *)
(***************************************************************************)
EXTENDS Integers, Sequences, FiniteSets, TLC

VARIABLES
    pc,                  \* "new" before CostTrackingManager(...), then "ready", then "done"
    model,               \* self.model: the raw requested model name
    user,                \* self.__user__: the host's user dict
    task,                \* self.task
    model_used_by_cost_calculation,  \* CostCalculationManager.model_used_by_cost_calculation
    model_pricing_data,  \* CostCalculationManager.model_pricing_data
    calls,               \* the coordinator calls made so far: their arguments and outcome
    costs,               \* what calculate_costs returned to the latest coordinator call
    tasks,               \* the event loop's tasks, in creation order
    events,              \* what __event_emitter__ received, in order
    usage_costs,         \* the rows of table usage_costs, in insertion order
    log,                 \* the lines printed at INFO level
    now,                 \* the clock, in hundredths of a second
    engine,              \* the host's database engine: its url's drivername
    catalog,             \* the tables and indexes of the database, in creation order
    init_db_calls,       \* how many times _init_db has run
    stats,               \* the latest get_usage_stats call: its arguments and outcome
    match                \* the latest _find_best_match call on a table: its arguments and result

vars == <<pc, model, user, task, model_used_by_cost_calculation, model_pricing_data,
          calls, costs, tasks, events, usage_costs, log, now,
          engine, catalog, init_db_calls, stats, match>>

\* how many coordinator calls one request makes at most
MaxCalls == 2

\* the last instant of the clock
MaxClock == 2

\* once _init_db has run this many times, no further manager is constructed
\* besides the request's own
MaxInitDb == 2

(***************************************************************************)
(* Python's str operations, as far as the program uses them.               *)
(***************************************************************************)

CharAt(s, i) == SubSeq(s, i, i)

UpperCase == "ABCDEFGHIJKLMNOPQRSTUVWXYZ"
LowerCase == "abcdefghijklmnopqrstuvwxyz"

\* str.lower() of each upper-case letter
LowerMap ==
    [ch \in {CharAt(UpperCase, i) : i \in 1..Len(UpperCase)} |->
        CharAt(LowerCase, CHOOSE i \in 1..Len(UpperCase) : CharAt(UpperCase, i) = ch)]

\* str.lower() of one character
LowerChar(ch) == IF ch \in DOMAIN LowerMap THEN LowerMap[ch] ELSE ch

\* str.lower()
RECURSIVE lower(_)
lower(s) ==
    IF Len(s) = 0 THEN s
    ELSE LowerChar(CharAt(s, 1)) \o lower(SubSeq(s, 2, Len(s)))

\* the whitespace str.strip() removes (the characters a TLA+ string can hold)
Whitespace == {" ", "\t", "\n", "\r", "\f"}

RECURSIVE lstrip(_)
lstrip(s) ==
    IF Len(s) > 0 /\ CharAt(s, 1) \in Whitespace THEN lstrip(SubSeq(s, 2, Len(s)))
    ELSE s

RECURSIVE rstrip(_)
rstrip(s) ==
    IF Len(s) > 0 /\ CharAt(s, Len(s)) \in Whitespace THEN rstrip(SubSeq(s, 1, Len(s) - 1))
    ELSE s

\* str.strip()
strip(s) == rstrip(lstrip(s))

\* str.startswith(prefix)
startswith(s, prefix) ==
    Len(prefix) <= Len(s) /\ SubSeq(s, 1, Len(prefix)) = prefix

\* str.find(sub) + 1: the position of the first occurrence of sub in s, 0 when there is none
find(s, sub) ==
    LET hits == {i \in 1..(Len(s) - Len(sub) + 1) : SubSeq(s, i, i + Len(sub) - 1) = sub}
    IN  IF hits = {} THEN 0 ELSE CHOOSE i \in hits : \A j \in hits : i <= j

\* sub in s
contains(s, sub) == find(s, sub) # 0

\* s.split(sep, 1)[1], for an s that holds sep
split_tail(s, sep) == SubSeq(s, find(s, sep) + Len(sep), Len(s))

(***************************************************************************)
(* decimal.Decimal: [c |-> coefficient, e |-> exponent], value c * 10^e.   *)
(***************************************************************************)

Dec(c, e) == [c |-> c, e |-> e]

RECURSIVE Pow10(_)
Pow10(n) == IF n = 0 THEN 1 ELSE 10 * Pow10(n - 1)

Min(a, b) == IF a <= b THEN a ELSE b

\* int * Decimal
DecTimesInt(n, d) == Dec(n * d.c, d.e)

\* Decimal + Decimal: the exact sum, at the smaller exponent
DecAdd(a, b) ==
    LET e == Min(a.e, b.e)
    IN  Dec(a.c * Pow10(a.e - e) + b.c * Pow10(b.e - e), e)

(***************************************************************************)
(* ModelCostManager: the pricing table and its resolution.                 *)
(***************************************************************************)

\* one entry of the pricing_data dict literal
Price(key, input_cost, output_cost, currency) ==
    [key |-> key,
     data |-> [input_cost_per_token |-> input_cost,
               output_cost_per_token |-> output_cost,
               cost_currency |-> currency]]

\* ModelCostManager.pricing_data, in the dict's (insertion) order; each rate is
\* the Decimal(str(rate)) of the float in the source
pricing_data == <<
    Price("openai.o1-preview",           Dec(15, -3), Dec(6, -2),    "USD"),  \* 0.015    0.060
    Price("openai.o1-mini",              Dec(3, -3),  Dec(12, -3),   "USD"),  \* 0.003    0.012
    Price("chatgpt-4o-latest",           Dec(5, -3),  Dec(15, -3),   "USD"),  \* 0.005    0.015
    Price("openai.gpt-4o",               Dec(25, -4), Dec(1, -2),    "USD"),  \* 0.0025   0.0100
    Price("openai.gpt-4o-2024-05-13",    Dec(5, -3),  Dec(15, -3),   "USD"),  \* 0.0050   0.0150
    Price("openai.gpt-4o-mini",          Dec(15, -5), Dec(6, -4),    "USD"),  \* 0.00015  0.00060
    Price("openai.gpt-4-turbo",          Dec(1, -2),  Dec(3, -2),    "USD"),  \* 0.01     0.03
    Price("openai.gpt-4",                Dec(3, -2),  Dec(6, -2),    "USD"),  \* 0.03     0.06
    Price("anthropic.claude-3-opus",     Dec(15, -3), Dec(75, -3),   "USD"),  \* 0.015    0.075
    Price("anthropic.claude-3-sonnet",   Dec(3, -3),  Dec(15, -3),   "USD"),  \* 0.003    0.015
    Price("anthropic.claude-3-5-sonnet", Dec(3, -3),  Dec(15, -3),   "USD"),  \* 0.003    0.015
    Price("anthropic.claude-3-haiku",    Dec(25, -5), Dec(125, -5),  "USD"),  \* 0.00025  0.00125
    Price("anthropic.claude-3-5-haiku",  Dec(25, -5), Dec(125, -5),  "USD"),  \* 0.00025  0.00125
    Price("yandexgpt.yandexgpt",         Dec(12, -4), Dec(12, -4),   "RUB"),  \* 0.00120  0.00120
    Price("yandexgpt.yandexgpt-lite",    Dec(2, -4),  Dec(2, -4),    "RUB")   \* 0.00020  0.00020
>>

\* pricing_data.keys(), in iteration order
pricing_keys == [i \in 1..Len(pricing_data) |-> pricing_data[i].key]

\* key in pricing_data
in_pricing_data(key) == \E i \in 1..Len(pricing_data) : pricing_data[i].key = key

\* the empty dict {}
EmptyDict == [k \in {} |-> 0]

\* pricing_data.get(key, {})
pricing_data_get(key) ==
    IF in_pricing_data(key)
    THEN pricing_data[CHOOSE i \in 1..Len(pricing_data) : pricing_data[i].key = key].data
    ELSE EmptyDict

\* Python's None, where a str is expected otherwise
None == "<None>"

\* _normalize_model_name with the strip_prefix flag ignored
normalize_model_name_never_strips(name, strip_prefix) == lower(name)

\* ModelCostManager._normalize_model_name
_normalize_model_name(name, strip_prefix) ==
    LET lowered == lower(name)
    IN  IF strip_prefix /\ contains(lowered, ".") THEN split_tail(lowered, ".") ELSE lowered

\* _normalize_model_name(key, strip_prefix) of every key, as the loop of
\* _find_best_match computes it
normalized_keys ==
    [strip_prefix \in BOOLEAN |->
        [i \in 1..Len(pricing_keys) |-> _normalize_model_name(pricing_keys[i], strip_prefix)]]

\* the loop of _find_best_match replacing the best match by any candidate that
\* is as long
RECURSIVE find_best_match_last_of_longest(_, _, _, _, _, _)
find_best_match_last_of_longest(keys, normalized, i, normalized_query, best_match, longest_match_length) ==
    IF i > Len(keys) THEN best_match
    ELSE LET key == keys[i]
             normalized_key == normalized[i]
             match_length == Len(normalized_key)
         IN  IF startswith(normalized_query, normalized_key)
                /\ match_length >= longest_match_length
             THEN find_best_match_last_of_longest(keys, normalized, i + 1,
                                                  normalized_query, key, match_length)
             ELSE find_best_match_last_of_longest(keys, normalized, i + 1,
                                                  normalized_query,
                                                  best_match, longest_match_length)

\* the loop of _find_best_match from key number i on, over the keys of the
\* pricing table in iteration order and their normalized forms, with the best
\* match and the longest match length so far
RECURSIVE find_best_match_from(_, _, _, _, _, _)
find_best_match_from(keys, normalized, i, normalized_query, best_match, longest_match_length) ==
    IF i > Len(keys) THEN best_match
    ELSE LET key == keys[i]
             normalized_key == normalized[i]
             match_length == Len(normalized_key)
         IN  IF startswith(normalized_query, normalized_key)
                /\ match_length > longest_match_length
             THEN find_best_match_from(keys, normalized, i + 1, normalized_query,
                                       key, match_length)
             ELSE find_best_match_from(keys, normalized, i + 1, normalized_query,
                                       best_match, longest_match_length)

\* _find_best_match keeping the first key that matches instead of the longest
find_best_match_first_wins(query, strip_prefix) ==
    LET normalized_query == _normalize_model_name(query, strip_prefix)
        hits == {i \in 1..Len(pricing_keys) :
                    startswith(normalized_query, normalized_keys[strip_prefix][i])}
    IN  IF hits = {} THEN None
        ELSE pricing_keys[CHOOSE i \in hits : \A j \in hits : i <= j]

\* ModelCostManager._find_best_match
_find_best_match(query, strip_prefix) ==
    find_best_match_from(pricing_keys, normalized_keys[strip_prefix], 1,
                         _normalize_model_name(query, strip_prefix), None, 0)

\* ModelCostManager._find_best_match when pricing_data holds the given keys, in
\* that order
find_best_match_over(keys, query, strip_prefix) ==
    find_best_match_from(keys,
                         [i \in 1..Len(keys) |-> _normalize_model_name(keys[i], strip_prefix)],
                         1, _normalize_model_name(query, strip_prefix), None, 0)

\* get_model_data answering a miss with the requested name instead of "unknown"
get_model_data_echoes_miss(name) ==
    LET m == strip(lower(name))
    IN  IF in_pricing_data(m) THEN <<m, pricing_data_get(m)>>
        ELSE LET full == _find_best_match(m, FALSE)
                 best_match == IF full = None THEN _find_best_match(m, TRUE) ELSE full
             IN  IF best_match = None THEN <<m, EmptyDict>>
                 ELSE <<best_match, pricing_data_get(best_match)>>

\* ModelCostManager.get_model_data: <<resolved key, pricing record>>
get_model_data(name) ==
    LET m == strip(lower(name))
    IN  IF in_pricing_data(m) THEN <<m, pricing_data_get(m)>>
        ELSE LET full == _find_best_match(m, FALSE)
                 best_match == IF full = None THEN _find_best_match(m, TRUE) ELSE full
             IN  IF best_match = None THEN <<"unknown", EmptyDict>>
                 ELSE <<best_match, pricing_data_get(best_match)>>

(***************************************************************************)
(* Number formatting.                                                      *)
(***************************************************************************)

Abs(n) == IF n < 0 THEN -n ELSE n

\* "0" * n
RECURSIVE Zeros(_)
Zeros(n) == IF n <= 0 THEN "" ELSE "0" \o Zeros(n - 1)

\* the decimal digits of n >= 0, left-padded with zeros to width w
Pad(n, w) == Zeros(w - Len(ToString(n))) \o ToString(n)

\* the decimal digits of n >= 0 in groups of three, as the ',' format option writes them
RECURSIVE Grouped(_)
Grouped(n) ==
    IF n < 1000 THEN ToString(n) ELSE Grouped(n \div 1000) \o "," \o Pad(n % 1000, 3)

\* n / 10^k rounded to the nearest integer, ties away from zero (ROUND_HALF_UP)
RoundHalfUp(n, k) ==
    LET q == Abs(n) \div Pow10(k)
        r == Abs(n) % Pow10(k)
        m == IF 2 * r >= Pow10(k) THEN q + 1 ELSE q
    IN  IF n < 0 THEN -m ELSE m

\* n / 10^k rounded to the nearest integer, ties to the even one (ROUND_HALF_EVEN,
\* the rounding of the default decimal context)
RoundHalfEven(n, k) ==
    LET q == Abs(n) \div Pow10(k)
        r == Abs(n) % Pow10(k)
        m == IF 2 * r > Pow10(k) \/ (2 * r = Pow10(k) /\ q % 2 = 1) THEN q + 1 ELSE q
    IN  IF n < 0 THEN -m ELSE m

\* Decimal.quantize(exp, rounding=ROUND_HALF_UP): d at the exponent of exp
quantize(d, exp) ==
    IF d.e >= exp.e THEN Dec(d.c * Pow10(d.e - exp.e), exp.e)
    ELSE Dec(RoundHalfUp(d.c, exp.e - d.e), exp.e)

\* str(Decimal), for an exponent <= 0
DecimalStr(d) ==
    LET digits == ToString(Abs(d.c))
        sign == IF d.c < 0 THEN "-" ELSE ""
        leftdigits == d.e + Len(digits)
        dotplace == IF leftdigits > -6 THEN leftdigits ELSE 1
        intpart == IF dotplace <= 0 THEN "0"
                   ELSE IF dotplace >= Len(digits) THEN digits \o Zeros(dotplace - Len(digits))
                   ELSE SubSeq(digits, 1, dotplace)
        fracpart == IF dotplace <= 0 THEN "." \o Zeros(-dotplace) \o digits
                    ELSE IF dotplace >= Len(digits) THEN ""
                    ELSE "." \o SubSeq(digits, dotplace + 1, Len(digits))
        expo == IF leftdigits = dotplace THEN ""
                ELSE "E" \o (IF leftdigits - dotplace < 0 THEN "-" ELSE "+")
                         \o ToString(Abs(leftdigits - dotplace))
    IN  sign \o intpart \o fracpart \o expo

\* f"{d:,.2f}" of a Decimal with exponent -8 .. 0: two fractional digits, rounded
\* as the default context rounds, the integer part in groups of three
FormatMoney(d) ==
    LET cents == IF d.e <= -2 THEN RoundHalfEven(d.c, -2 - d.e) ELSE d.c * Pow10(d.e + 2)
    IN  (IF d.c < 0 THEN "-" ELSE "")
        \o Grouped(Abs(cents) \div 100) \o "." \o Pad(Abs(cents) % 100, 2)

\* f"{t:.2f}s" of a time t >= 0 given in hundredths of a second
FormatSeconds(t) == ToString(t \div 100) \o "." \o Pad(t % 100, 2) \o "s"

(***************************************************************************)
(* CostCalculationManager.                                                 *)
(***************************************************************************)

\* Config.DECIMALS = "0.00000001", as Decimal(Config.DECIMALS)
DECIMALS == Dec(1, -8)

\* Decimal(str(d.get(key, 0)))
rate_of(d, key) == IF key \in DOMAIN d THEN d[key] ELSE Dec(0, 0)

\* calculate_costs returning the requested model name instead of the resolved key
calculate_costs_returns_requested(data, used, input_tokens, output_tokens) ==
    LET input_cost_per_token == rate_of(data, "input_cost_per_token")
        output_cost_per_token == rate_of(data, "output_cost_per_token")
        input_cost == IF input_tokens # 0
                      THEN DecTimesInt(input_tokens, input_cost_per_token) ELSE Dec(0, 0)
        output_cost == IF output_tokens # 0
                       THEN DecTimesInt(output_tokens, output_cost_per_token) ELSE Dec(0, 0)
        total_cost == DecAdd(input_cost, output_cost)
    IN  <<quantize(total_cost, DECIMALS),
          IF "cost_currency" \in DOMAIN data THEN data.cost_currency ELSE "",
          model>>

\* calculate_costs pricing the output tokens at the input rate
calculate_costs_input_rate_twice(data, used, input_tokens, output_tokens) ==
    LET input_cost_per_token == rate_of(data, "input_cost_per_token")
        input_cost == IF input_tokens # 0
                      THEN DecTimesInt(input_tokens, input_cost_per_token) ELSE Dec(0, 0)
        output_cost == IF output_tokens # 0
                       THEN DecTimesInt(output_tokens, input_cost_per_token) ELSE Dec(0, 0)
        total_cost == DecAdd(input_cost, output_cost)
    IN  <<quantize(total_cost, DECIMALS),
          IF "cost_currency" \in DOMAIN data THEN data.cost_currency ELSE "",
          used>>

\* CostCalculationManager.calculate_costs, of a calculator holding the pricing
\* record data and the resolved key used: <<total_cost, cost_currency, key>>
calculate_costs(data, used, input_tokens, output_tokens) ==
    LET input_cost_per_token == rate_of(data, "input_cost_per_token")
        output_cost_per_token == rate_of(data, "output_cost_per_token")
        input_cost == IF input_tokens # 0
                      THEN DecTimesInt(input_tokens, input_cost_per_token) ELSE Dec(0, 0)
        output_cost == IF output_tokens # 0
                       THEN DecTimesInt(output_tokens, output_cost_per_token) ELSE Dec(0, 0)
        total_cost == DecAdd(input_cost, output_cost)  \* compensation is Decimal(1.0)
    IN  <<quantize(total_cost, DECIMALS),
          IF "cost_currency" \in DOMAIN data THEN data.cost_currency ELSE "",
          used>>

(***************************************************************************)
(* CostTrackingManager.update_status_message and                           *)
(* UsagePersistenceManager.log_usage_fact: the bodies of the two tasks.    *)
(***************************************************************************)

\* filter(None, parts): the non-empty strings of parts, in order
RECURSIVE filter_none(_)
filter_none(parts) ==
    IF parts = << >> THEN << >>
    ELSE IF Head(parts) = "" THEN filter_none(Tail(parts))
    ELSE <<Head(parts)>> \o filter_none(Tail(parts))

\* sep.join(parts)
RECURSIVE join(_, _)
join(sep, parts) ==
    IF parts = << >> THEN ""
    ELSE IF Len(parts) = 1 THEN parts[1]
    ELSE parts[1] \o sep \o join(sep, Tail(parts))

\* cost_str of update_status_message (current_cost and cost_currency are never
\* None when the coordinator calls it)
cost_str_of(current_cost, cost_currency) ==
    IF cost_currency = "RUB" THEN FormatMoney(current_cost) \o "₽"
    ELSE "$" \o FormatMoney(current_cost)

\* status_parts showing the cost whatever the status label
status_parts_cost_always(a, current_time) ==
    LET processing_time == current_time - a.start_time
        cost_str == cost_str_of(a.current_cost, a.cost_currency)
    IN  << IF a.start_time # 0 THEN FormatSeconds(processing_time) ELSE "",
           ToString(a.input_tokens) \o " Input Tokens",
           ToString(a.generated_tokens) \o " Generated Tokens",
           IF a.reasoning_tokens # 0
           THEN "including " \o ToString(a.reasoning_tokens) \o " Reasoning Tokens" ELSE "",
           IF cost_str # "" THEN "Cost " \o cost_str ELSE "",
           a.status >>

\* status_parts of update_status_message, at time current_time
status_parts(a, current_time) ==
    LET processing_time == current_time - a.start_time
        cost_str == cost_str_of(a.current_cost, a.cost_currency)
    IN  << IF a.start_time # 0 THEN FormatSeconds(processing_time) ELSE "",
           ToString(a.input_tokens) \o " Input Tokens",
           ToString(a.generated_tokens) \o " Generated Tokens",
           IF a.reasoning_tokens # 0
           THEN "including " \o ToString(a.reasoning_tokens) \o " Reasoning Tokens" ELSE "",
           IF cost_str # "" /\ ~contains(a.status, "Requested")
           THEN "Cost " \o cost_str ELSE "",
           a.status >>

\* the event with done set for "Completed" alone
status_event_done_when_completed(a, current_time) ==
    [type |-> "status",
     data |-> [description |-> join(" | ", filter_none(status_parts(a, current_time))),
               done |-> a.status = "Completed"]]

\* the dict update_status_message passes to __event_emitter__
status_event(a, current_time) ==
    [type |-> "status",
     data |-> [description |-> join(" | ", filter_none(status_parts(a, current_time))),
               done |-> a.status \in {"Completed", "Stopped", ""}]]

\* the row log_usage_fact inserts, given the id the table assigns
usage_row(a, id, timestamp) ==
    [id |-> id,
     user_email |-> a.user_email,
     model |-> a.model,
     task |-> a.task,
     timestamp |-> timestamp,
     input_tokens |-> a.input_tokens,
     output_tokens |-> a.output_tokens,
     total_cost |-> DecimalStr(a.total_cost),
     cost_currency |-> a.cost_currency,
     model_used_by_cost_calculation |-> a.model_used_by_cost_calculation]

\* the id an AUTOINCREMENT / IDENTITY column gives the next row
next_id(rows) == IF rows = << >> THEN 1 ELSE rows[Len(rows)].id + 1

(***************************************************************************)
(* UsagePersistenceManager._init_db and the data definition statements it  *)
(* hands to the database. A database is [catalog, usage_costs]: its        *)
(* tables and indexes in creation order, and the rows of table usage_costs.*)
(***************************************************************************)

\* the catalog's entry of table usage_costs, with the id column's clause
usage_costs_table(auto_increment) ==
    [type |-> "table", name |-> "usage_costs", tbl_name |-> "usage_costs",
     auto_increment |-> auto_increment]

\* the catalog's entry of index idx_user_email
idx_user_email_index ==
    [type |-> "index", name |-> "idx_user_email", tbl_name |-> "usage_costs",
     columns |-> <<"user_email">>]

\* whether the catalog holds an object of that name
exists_in(cat, name) == \E i \in 1..Len(cat) : cat[i].name = name

\* db.execute of CREATE TABLE / CREATE INDEX, with or without IF NOT EXISTS:
\* the error it raises (None for none) and the database after it
execute_create(database, object, if_not_exists) ==
    IF exists_in(database.catalog, object.name)
    THEN [error |-> IF if_not_exists THEN None ELSE object.name \o " already exists",
          database |-> database]
    ELSE IF object.type = "index" /\ ~exists_in(database.catalog, object.tbl_name)
    THEN [error |-> "no such table: " \o object.tbl_name, database |-> database]
    ELSE [error |-> None,
          database |-> [database EXCEPT !.catalog = Append(database.catalog, object)]]

\* db.execute of DROP TABLE IF EXISTS usage_costs: the table goes with its rows
\* and its indexes
execute_drop_table(database) ==
    [error |-> None,
     database |-> [catalog |-> SelectSeq(database.catalog,
                                         LAMBDA o : o.tbl_name # "usage_costs"),
                   usage_costs |-> << >>]]

\* the outcome of _init_db: whether it raised, the database it leaves (what was
\* committed, or the database as it was when the transaction is abandoned), and
\* the lines it printed
init_db_outcome(database, last) ==
    IF last.error = None
    THEN [raised |-> FALSE, database |-> last.database, log |-> << >>]
    ELSE [raised |-> TRUE, database |-> database, log |-> <<"Database error in _init_db">>]

\* _init_db with the DROP TABLE statement of its comments executed first
init_db_drops_table(drivername, database) ==
    LET is_sqlite == contains(drivername, "sqlite")
        auto_increment == IF is_sqlite THEN "AUTOINCREMENT"
                          ELSE "GENERATED BY DEFAULT AS IDENTITY"
        dropped == execute_drop_table(database)
        create_table == execute_create(dropped.database,
                                       usage_costs_table(auto_increment), TRUE)
        create_index == IF create_table.error # None THEN create_table
                        ELSE execute_create(create_table.database,
                                            idx_user_email_index, TRUE)
    IN  init_db_outcome(database, create_index)

\* UsagePersistenceManager._init_db
_init_db(drivername, database) ==
    LET is_sqlite == contains(drivername, "sqlite")
        auto_increment == IF is_sqlite THEN "AUTOINCREMENT"
                          ELSE "GENERATED BY DEFAULT AS IDENTITY"
        create_table == execute_create(database, usage_costs_table(auto_increment), TRUE)
        create_index == IF create_table.error # None THEN create_table
                        ELSE execute_create(create_table.database,
                                            idx_user_email_index, TRUE)
    IN  init_db_outcome(database, create_index)

(***************************************************************************)
(* UsagePersistenceManager.get_usage_stats. A datetime is the number of    *)
(* hundredths of a second since 2024-01-01T00:00:00; an Optional[datetime] *)
(* is << >> for None and <<t>> for datetime t.                             *)
(***************************************************************************)

\* timedelta(days=1), in hundredths of a second
DayLength == 8640000

\* strftime('%Y-%m-%d', timestamp) and to_char(timestamp, 'YYYY-MM-DD'), for a
\* timestamp of January 2024
date_function(is_sqlite, timestamp) ==
    "2024-01-" \o Pad(timestamp \div DayLength + 1, 2)

\* the value of each decimal digit
DigitValue ==
    [ch \in {"0", "1", "2", "3", "4", "5", "6", "7", "8", "9"} |->
        CHOOSE v \in 0..9 : ToString(v) = ch]

\* int(s) of a string of decimal digits
RECURSIVE ParseDigits(_)
ParseDigits(s) ==
    IF Len(s) = 0 THEN 0
    ELSE 10 * ParseDigits(SubSeq(s, 1, Len(s) - 1)) + DigitValue[CharAt(s, Len(s))]

\* the number the database reads in a stored total_cost: the text str(Decimal)
\* wrote, digits with an optional fraction and an optional exponent
ParseDecimal(s) ==
    LET e_at == find(s, "E")
        mantissa == IF e_at = 0 THEN s ELSE SubSeq(s, 1, e_at - 1)
        exponent == IF e_at = 0 THEN 0
                    ELSE IF CharAt(s, e_at + 1) = "-"
                         THEN -ParseDigits(SubSeq(s, e_at + 2, Len(s)))
                    ELSE IF CharAt(s, e_at + 1) = "+"
                         THEN ParseDigits(SubSeq(s, e_at + 2, Len(s)))
                    ELSE ParseDigits(SubSeq(s, e_at + 1, Len(s)))
        dot_at == find(mantissa, ".")
        digits == IF dot_at = 0 THEN mantissa
                  ELSE SubSeq(mantissa, 1, dot_at - 1)
                       \o SubSeq(mantissa, dot_at + 1, Len(mantissa))
        fraction == IF dot_at = 0 THEN 0 ELSE Len(mantissa) - dot_at
    IN  Dec(ParseDigits(digits), exponent - fraction)

\* the number d without the trailing zeros of its coefficient: one
\* representation for each value, as a float has
RECURSIVE float(_)
float(d) ==
    IF d.c = 0 THEN Dec(0, 0)
    ELSE IF d.c % 10 = 0 THEN float(Dec(d.c \div 10, d.e + 1))
    ELSE d

\* the characters of the model's strings, in the order of their code points
CodePoints ==
    " $+,-.0123456789<>@ABCDEFGHIJKLMNOPQRSTUVWXYZ_abcdefghijklmnopqrstuvwxyz|"

\* a < b for two strings, by code points (the database's binary collation)
RECURSIVE string_less(_, _)
string_less(a, b) ==
    IF Len(b) = 0 THEN FALSE
    ELSE IF Len(a) = 0 THEN TRUE
    ELSE IF CharAt(a, 1) = CharAt(b, 1)
         THEN string_less(SubSeq(a, 2, Len(a)), SubSeq(b, 2, Len(b)))
    ELSE find(CodePoints, CharAt(a, 1)) < find(CodePoints, CharAt(b, 1))

\* x before y in ORDER BY user_email, date, model, cost_currency
order_by_less(x, y) ==
    LET kx == <<x.user_email, x.date, x.model, x.cost_currency>>
        ky == <<y.user_email, y.date, y.model, y.cost_currency>>
        differ == {i \in 1..4 : kx[i] # ky[i]}
    IN  /\ differ # {}
        /\ LET i == CHOOSE i \in differ : \A j \in differ : i <= j
           IN  string_less(kx[i], ky[i])

\* groups in ORDER BY order
RECURSIVE order_by(_)
order_by(groups) ==
    IF groups = {} THEN << >>
    ELSE LET first == CHOOSE g \in groups : \A h \in groups \ {g} : order_by_less(g, h)
         IN  <<first>> \o order_by(groups \ {first})

\* SUM(column) over the rows numbered in group
RECURSIVE sum_int(_, _, _)
sum_int(rows, group, column) ==
    IF group = {} THEN 0
    ELSE LET r == CHOOSE r \in group : TRUE
         IN  rows[r][column] + sum_int(rows, group \ {r}, column)

\* SUM(total_cost) over the rows numbered in group
RECURSIVE sum_total_cost(_, _)
sum_total_cost(rows, group) ==
    IF group = {} THEN Dec(0, 0)
    ELSE LET r == CHOOSE r \in group : TRUE
         IN  DecAdd(ParseDecimal(rows[r].total_cost), sum_total_cost(rows, group \ {r}))

\* the WHERE clause get_usage_stats builds, applied to one row
where_clause(row, user_email, start_date, end_date) ==
    /\ (user_email # None /\ user_email # "") => row.user_email = user_email
    /\ start_date # << >> => row.timestamp >= start_date[1]
    /\ end_date # << >> => row.timestamp < end_date[1] + DayLength

\* the summary get_usage_stats returns over the rows of usage_costs: one dict
\* for each user, model, currency and date, in ORDER BY order; total_cost is the
\* exact sum, which the float returned equals up to the rounding of floating-point
\* addition
get_usage_stats_summary(is_sqlite, rows, user_email, start_date, end_date) ==
    LET selected == {r \in 1..Len(rows) :
                        where_clause(rows[r], user_email, start_date, end_date)}
        key(r) == [user_email |-> rows[r].user_email, model |-> rows[r].model,
                   cost_currency |-> rows[r].cost_currency,
                   date |-> date_function(is_sqlite, rows[r].timestamp)]
        group(k) == {r \in selected : key(r) = k}
    IN  [i \in 1..Cardinality({key(r) : r \in selected}) |->
            LET k == order_by({key(r) : r \in selected})[i]
            IN  [user_email |-> k.user_email,
                 model |-> k.model,
                 currency |-> k.cost_currency,
                 date |-> k.date,
                 total_cost |-> float(sum_total_cost(rows, group(k))),
                 total_input_tokens |-> sum_int(rows, group(k), "input_tokens"),
                 total_output_tokens |-> sum_int(rows, group(k), "output_tokens")]]

(***************************************************************************)
(* The state machine: one CostTrackingManager (one request), the event     *)
(* loop's tasks, the emitter's sink and table usage_costs.                 *)
(***************************************************************************)

\* a row an earlier request left in the table (it is older than the clock's start)
EarlierRow ==
    [id |-> 1, user_email |-> "earlier@example.com", model |-> "openai.gpt-4",
     task |-> "chat", timestamp |-> 0, input_tokens |-> 10, output_tokens |-> 20,
     total_cost |-> "1.50000000", cost_currency |-> "USD",
     model_used_by_cost_calculation |-> "openai.gpt-4"]

\* the schema _init_db leaves in a database of that driver
SetUpCatalog(drivername) ==
    <<usage_costs_table(IF contains(drivername, "sqlite") THEN "AUTOINCREMENT"
                        ELSE "GENERATED BY DEFAULT AS IDENTITY"),
      idx_user_email_index>>

\* the databases a request can find: a fresh one, and one an earlier request
\* has set up and written to
Databases(drivername) ==
    {[catalog |-> << >>, usage_costs |-> << >>],
     [catalog |-> SetUpCatalog(drivername), usage_costs |-> <<EarlierRow>>]}

Init ==
    /\ pc = "new"
    /\ model = ""
    /\ user = EmptyDict
    /\ task = ""
    /\ model_used_by_cost_calculation = None
    /\ model_pricing_data = EmptyDict
    /\ calls = << >>
    /\ costs = << >>
    /\ tasks = << >>
    /\ events = << >>
    /\ log = << >>
    /\ now = 1
    /\ engine = [drivername |-> "sqlite"]
    /\ \E d \in Databases(engine.drivername) :
          catalog = d.catalog /\ usage_costs = d.usage_costs
    /\ init_db_calls = 0
    /\ stats = << >>
    /\ match = << >>

\* CostTrackingManager.__init__, with CostCalculationManager.__init__ and
\* UsagePersistenceManager.__init__; when _init_db raises, no manager is made
Construct(m, u, t) ==
    /\ pc = "new"
    /\ LET r == _init_db(engine.drivername,
                         [catalog |-> catalog, usage_costs |-> usage_costs])
       IN  /\ catalog' = r.database.catalog
           /\ usage_costs' = r.database.usage_costs
           /\ log' = log \o r.log
           /\ init_db_calls' = init_db_calls + 1
           /\ IF r.raised
              THEN UNCHANGED <<pc, model, user, task, model_used_by_cost_calculation,
                               model_pricing_data, stats, match>>
              ELSE /\ pc' = "ready"
                   /\ model' = m
                   /\ user' = u
                   /\ task' = t
                   /\ model_used_by_cost_calculation' = get_model_data(m)[1]
                   /\ model_pricing_data' = get_model_data(m)[2]
    /\ UNCHANGED <<calls, costs, tasks, events, now, engine, stats, match>>

\* UsagePersistenceManager.__init__ anywhere else: another request's manager,
\* or the process starting again
UsagePersistenceManager ==
    /\ init_db_calls < MaxInitDb
    /\ LET r == _init_db(engine.drivername,
                         [catalog |-> catalog, usage_costs |-> usage_costs])
       IN  /\ catalog' = r.database.catalog
           /\ usage_costs' = r.database.usage_costs
           /\ log' = log \o r.log
           /\ init_db_calls' = init_db_calls + 1
    /\ UNCHANGED <<pc, model, user, task, model_used_by_cost_calculation,
                   model_pricing_data, calls, costs, tasks, events, now, engine, stats, match>>

\* whether the cost of the call can be written with the model's 32-bit integers
Fits(data, input_tokens, output_tokens) ==
    LET per(key) == quantize(rate_of(data, key), DECIMALS).c
        fits(n, r) == IF r = 0 THEN TRUE ELSE n <= 1000000000 \div r
    IN  /\ fits(input_tokens, per("input_cost_per_token"))
        /\ fits(output_tokens, per("output_cost_per_token"))

\* the task asyncio.create_task makes of coroutine coro(args) in call number k
new_task(coro, k, args) == [coro |-> coro, call |-> k, state |-> "pending", args |-> args]

\* calculate_costs_update_status_and_persist handing the usage fact the resolved
\* key as its model, and a cost calculated again without the input tokens
persist_recalculates_for_fact(a) ==
    /\ pc = "ready"
    /\ Fits(model_pricing_data, a.input_tokens, a.generated_tokens)
    /\ LET c == calculate_costs(model_pricing_data, model_used_by_cost_calculation,
                                a.input_tokens, a.generated_tokens)
           k == Len(calls) + 1
           status_task ==
               new_task("update_status_message", k,
                        [input_tokens |-> a.input_tokens,
                         generated_tokens |-> a.generated_tokens,
                         reasoning_tokens |-> a.reasoning_tokens,
                         start_time |-> a.start_time,
                         event_emitter |-> a.event_emitter,
                         current_cost |-> c[1],
                         cost_currency |-> c[2],
                         status |-> a.status])
       IN  /\ costs' = c
           /\ IF ~a.persist_usage
              THEN /\ tasks' = Append(tasks, status_task)
                   /\ calls' = Append(calls, [args |-> a, result |-> "returned"])
              ELSE IF "email" \notin DOMAIN user
              THEN \* self.__user__["email"] raises KeyError in the caller's frame
                   /\ tasks' = Append(tasks, status_task)
                   /\ calls' = Append(calls, [args |-> a, result |-> "KeyError"])
              ELSE /\ tasks' = tasks \o
                        << status_task,
                           new_task("log_usage_fact", k,
                                    [user_email |-> user.email,
                                     model |-> c[3],
                                     task |-> task,
                                     input_tokens |-> a.input_tokens,
                                     output_tokens |-> a.generated_tokens,
                                     total_cost |->
                                         calculate_costs(model_pricing_data,
                                                         model_used_by_cost_calculation,
                                                         0, a.generated_tokens)[1],
                                     cost_currency |-> c[2],
                                     model_used_by_cost_calculation |-> c[3]]) >>
                   /\ calls' = Append(calls, [args |-> a, result |-> "returned"])
    /\ UNCHANGED <<pc, model, user, task, model_used_by_cost_calculation,
                   model_pricing_data, events, usage_costs, log, now,
                   engine, catalog, init_db_calls, stats, match>>

\* CostTrackingManager.calculate_costs_update_status_and_persist
calculate_costs_update_status_and_persist(a) ==
    /\ pc = "ready"
    /\ Fits(model_pricing_data, a.input_tokens, a.generated_tokens)
    /\ LET c == calculate_costs(model_pricing_data, model_used_by_cost_calculation,
                                a.input_tokens, a.generated_tokens)
           k == Len(calls) + 1
           status_task ==
               new_task("update_status_message", k,
                        [input_tokens |-> a.input_tokens,
                         generated_tokens |-> a.generated_tokens,
                         reasoning_tokens |-> a.reasoning_tokens,
                         start_time |-> a.start_time,
                         event_emitter |-> a.event_emitter,
                         current_cost |-> c[1],
                         cost_currency |-> c[2],
                         status |-> a.status])
       IN  /\ costs' = c
           /\ IF ~a.persist_usage
              THEN /\ tasks' = Append(tasks, status_task)
                   /\ calls' = Append(calls, [args |-> a, result |-> "returned"])
              ELSE IF "email" \notin DOMAIN user
              THEN \* self.__user__["email"] raises KeyError in the caller's frame
                   /\ tasks' = Append(tasks, status_task)
                   /\ calls' = Append(calls, [args |-> a, result |-> "KeyError"])
              ELSE /\ tasks' = tasks \o
                        << status_task,
                           new_task("log_usage_fact", k,
                                    [user_email |-> user.email,
                                     model |-> model,
                                     task |-> task,
                                     input_tokens |-> a.input_tokens,
                                     output_tokens |-> a.generated_tokens,
                                     total_cost |-> c[1],
                                     cost_currency |-> c[2],
                                     model_used_by_cost_calculation |-> c[3]]) >>
                   /\ calls' = Append(calls, [args |-> a, result |-> "returned"])
    /\ UNCHANGED <<pc, model, user, task, model_used_by_cost_calculation,
                   model_pricing_data, events, usage_costs, log, now,
                   engine, catalog, init_db_calls, stats, match>>

\* task i runs update_status_message; the host's emitter takes the event or raises
update_status_message(i) ==
    /\ i \in 1..Len(tasks)
    /\ tasks[i].coro = "update_status_message"
    /\ tasks[i].state = "pending"
    /\ IF tasks[i].args.event_emitter = None
       THEN /\ tasks' = [tasks EXCEPT ![i].state = "done"]
            /\ events' = events
       ELSE \E outcome \in {"sent", "raised"} :
              IF outcome = "sent"
              THEN /\ events' = Append(events, [by |-> i,
                                                event |-> status_event(tasks[i].args, now)])
                   /\ tasks' = [tasks EXCEPT ![i].state = "done"]
              ELSE /\ events' = events
                   /\ tasks' = [tasks EXCEPT ![i].state = "failed"]
    /\ UNCHANGED <<pc, model, user, task, model_used_by_cost_calculation,
                   model_pricing_data, calls, costs, usage_costs, log,
                   engine, catalog, init_db_calls, stats, match>>
    /\ UNCHANGED now

\* log_usage_fact writing over the row the table holds for the same user and model
log_usage_fact_upsert(i) ==
    /\ i \in 1..Len(tasks)
    /\ tasks[i].coro = "log_usage_fact"
    /\ tasks[i].state = "pending"
    /\ \E outcome \in {"committed", "error"} :
          IF outcome = "committed"
          THEN LET same == {r \in 1..Len(usage_costs) :
                               /\ usage_costs[r].user_email = tasks[i].args.user_email
                               /\ usage_costs[r].model = tasks[i].args.model}
               IN  /\ IF same = {}
                      THEN usage_costs' = Append(usage_costs,
                               usage_row(tasks[i].args, next_id(usage_costs), now))
                      ELSE LET r == CHOOSE r \in same : TRUE
                           IN  usage_costs' = [usage_costs EXCEPT
                                   ![r] = usage_row(tasks[i].args, usage_costs[r].id, now + 1)]
                   /\ tasks' = [tasks EXCEPT ![i].state = "done"]
                   /\ log' = log
          ELSE /\ usage_costs' = usage_costs
               /\ log' = Append(log, "Database error in log_usage_fact")
               /\ tasks' = [tasks EXCEPT ![i].state = "failed"]
    /\ UNCHANGED <<pc, model, user, task, model_used_by_cost_calculation,
                   model_pricing_data, calls, costs, events, now,
                   engine, catalog, init_db_calls, stats, match>>

\* log_usage_fact whose failure comes after the row is written
log_usage_fact_fails_after_insert(i) ==
    /\ i \in 1..Len(tasks)
    /\ tasks[i].coro = "log_usage_fact"
    /\ tasks[i].state = "pending"
    /\ \E outcome \in {"committed", "error"} :
          /\ usage_costs' = Append(usage_costs,
                                   usage_row(tasks[i].args, next_id(usage_costs), now))
          /\ IF outcome = "committed"
             THEN /\ tasks' = [tasks EXCEPT ![i].state = "done"]
                  /\ log' = log
             ELSE /\ log' = Append(log, "Database error in log_usage_fact")
                  /\ tasks' = [tasks EXCEPT ![i].state = "failed"]
    /\ UNCHANGED <<pc, model, user, task, model_used_by_cost_calculation,
                   model_pricing_data, calls, costs, events, now,
                   engine, catalog, init_db_calls, stats, match>>

\* task i runs log_usage_fact; the database takes the insert or rejects it
log_usage_fact(i) ==
    /\ i \in 1..Len(tasks)
    /\ tasks[i].coro = "log_usage_fact"
    /\ tasks[i].state = "pending"
    /\ \E outcome \in {"committed", "error"} :
          IF outcome = "committed"
          THEN /\ usage_costs' = Append(usage_costs,
                                        usage_row(tasks[i].args, next_id(usage_costs), now))
               /\ tasks' = [tasks EXCEPT ![i].state = "done"]
               /\ log' = log
          ELSE /\ usage_costs' = usage_costs
               /\ log' = Append(log, "Database error in log_usage_fact")
               /\ tasks' = [tasks EXCEPT ![i].state = "failed"]
    /\ UNCHANGED <<pc, model, user, task, model_used_by_cost_calculation,
                   model_pricing_data, calls, costs, events, now,
                   engine, catalog, init_db_calls, stats, match>>

\* UsagePersistenceManager.get_usage_stats, called on a manager that exists;
\* the database answers the query or rejects it
get_usage_stats(user_email, start_date, end_date) ==
    /\ init_db_calls >= 1
    /\ LET args == [user_email |-> user_email, start_date |-> start_date,
                    end_date |-> end_date]
       IN  \E outcome \in {"rows", "error"} :
              IF outcome = "rows"
              THEN /\ stats' = [args |-> args, raised |-> FALSE,
                                summary |-> get_usage_stats_summary(
                                                contains(engine.drivername, "sqlite"),
                                                usage_costs, user_email,
                                                start_date, end_date)]
                   /\ log' = log
              ELSE /\ stats' = [args |-> args, raised |-> TRUE, summary |-> << >>]
                   /\ log' = Append(log, "Database error in get_total_costs_by_user")
    /\ UNCHANGED <<pc, model, user, task, model_used_by_cost_calculation,
                   model_pricing_data, calls, costs, tasks, events, usage_costs, now,
                   engine, catalog, init_db_calls, match>>

\* a call of ModelCostManager._find_best_match on a class whose pricing_data
\* holds the given keys
FindBestMatch(keys, query, strip_prefix) ==
    /\ match' = [keys |-> keys, query |-> query, strip_prefix |-> strip_prefix,
                 best_match |-> find_best_match_over(keys, query, strip_prefix)]
    /\ UNCHANGED <<pc, model, user, task, model_used_by_cost_calculation,
                   model_pricing_data, calls, costs, tasks, events, usage_costs, log,
                   now, engine, catalog, init_db_calls, stats>>

\* time passes
Tick ==
    /\ now < MaxClock
    /\ now' = now + 1
    /\ UNCHANGED <<pc, model, user, task, model_used_by_cost_calculation,
                   model_pricing_data, calls, costs, tasks, events, usage_costs, log,
                   engine, catalog, init_db_calls, stats, match>>

\* the request completes: its caller makes no further call
Finish ==
    /\ pc = "ready"
    /\ pc' = "done"
    /\ UNCHANGED <<model, user, task, model_used_by_cost_calculation,
                   model_pricing_data, calls, costs, tasks, events, usage_costs, log, now,
                   engine, catalog, init_db_calls, stats, match>>

(***************************************************************************)
(* The requested model names and the arguments of the calls.               *)
(***************************************************************************)

\* what may stand before the first '.' of a requested name
Providers == {"", "openai.", "customprovider.", "a.b.", " ", "."}

\* every key with its provider prefix removed
StrippedKeys == {_normalize_model_name(pricing_keys[i], TRUE) : i \in 1..Len(pricing_keys)}

Stems ==
    {pricing_keys[i] : i \in 1..Len(pricing_keys)} \cup StrippedKeys
    \cup {"", "totally-unknown-model", "openai", "gpt-4.5-preview", "GPT-4O-Mini",
          "Anthropic.Claude-3-Opus", "yandexgpt", "chatgpt", "gpt-3.5-turbo"}

Suffixes == {"", "-extra", " ", "-2024-05-13"}

\* the requested model names of the pricing specification
Queries == {p \o s \o x : p \in Providers, s \in Stems, x \in Suffixes}

\* the host's user dict, with and without an email
Users == {[id |-> "7", email |-> "user@example.com"], [id |-> "7"]}

\* the status labels a caller passes
Statuses == {"", "Completed", "Stopped", "Requested...", "Streaming...",
             "Stream Requested", "completed"}

\* start_time: the clock's value when the request began, or 0 for none
StartTimes == {0, 1}

\* the arguments of a coordinator call
Args(input, generated, reasoning, start_times, emitters, statuses, persist) ==
    [input_tokens : input, generated_tokens : generated, reasoning_tokens : reasoning,
     start_time : start_times, event_emitter : emitters, status : statuses,
     persist_usage : persist]

\* the requested model names of the status specification: an exact key, a longer
\* name, a name under another provider, a RUB model, and an unknown one
ModelNames == {"anthropic.claude-3-sonnet", "openai.gpt-4o-2024-05-13-extra",
               "customprovider.claude-3-opus", "YandexGPT.YandexGPT-Lite ",
               "totally-unknown-model"}

(***************************************************************************)
(* The specifications.                                                     *)
(***************************************************************************)

\* one request: up to MaxCalls calls, the tasks running in any order
Next ==
    \/ \E m \in {"anthropic.claude-3-sonnet", "totally-unknown-model"}, u \in Users :
          Construct(m, u, "chat")
    \/ \E a \in Args({1000}, {500}, {0}, {1}, {"emitter"}, {"Completed"}, BOOLEAN) :
          Len(calls) < MaxCalls /\ calculate_costs_update_status_and_persist(a)
    \/ \E i \in 1..Len(tasks) : update_status_message(i)
    \/ \E i \in 1..Len(tasks) : log_usage_fact(i)
    \/ Tick
    \/ Finish

Spec == Init /\ [][Next]_vars

\* one call with every kind of argument
NextStatus ==
    \/ \E m \in ModelNames, u \in Users : Construct(m, u, "chat")
    \/ \E a \in Args({0, 1000}, {0, 500}, {0, 7}, StartTimes, {None, "emitter"}, Statuses, BOOLEAN) :
          Len(calls) < 1 /\ calculate_costs_update_status_and_persist(a)
    \/ \E i \in 1..Len(tasks) : update_status_message(i)
    \/ \E i \in 1..Len(tasks) : log_usage_fact(i)
    \/ Tick

SpecStatus == Init /\ [][NextStatus]_vars

\* every model name, one call with every token count
NextPricing ==
    \/ \E m \in Queries : Construct(m, [id |-> "7", email |-> "user@example.com"], "chat")
    \/ \E a \in Args({0, 7, 1000}, {0, 500}, {0}, StartTimes, {"emitter"}, {"Completed"}, {TRUE}) :
          Len(calls) < 1 /\ calculate_costs_update_status_and_persist(a)

SpecPricing == Init /\ [][NextPricing]_vars

\* the drivers of the schema specification
Drivernames == {"sqlite", "postgresql"}

\* any driver, and a database that is fresh, set up but empty, or written to
InitSchema ==
    /\ pc = "new"
    /\ model = ""
    /\ user = EmptyDict
    /\ task = ""
    /\ model_used_by_cost_calculation = None
    /\ model_pricing_data = EmptyDict
    /\ calls = << >>
    /\ costs = << >>
    /\ tasks = << >>
    /\ events = << >>
    /\ log = << >>
    /\ now = 1
    /\ engine \in [drivername : Drivernames]
    /\ \E d \in Databases(engine.drivername)
                \cup {[catalog |-> SetUpCatalog(engine.drivername), usage_costs |-> << >>]} :
          catalog = d.catalog /\ usage_costs = d.usage_costs
    /\ init_db_calls = 0
    /\ stats = << >>
    /\ match = << >>

\* managers constructed again and again around one request that records its usage
NextSchema ==
    \/ UsagePersistenceManager
    \/ \E m \in {"anthropic.claude-3-sonnet"} :
          Construct(m, [id |-> "7", email |-> "user@example.com"], "chat")
    \/ \E a \in Args({1000}, {500}, {0}, {1}, {"emitter"}, {"Completed"}, {TRUE}) :
          Len(calls) < 1 /\ calculate_costs_update_status_and_persist(a)
    \/ \E i \in 1..Len(tasks) : update_status_message(i)
    \/ \E i \in 1..Len(tasks) : log_usage_fact(i)

SpecSchema == InitSchema /\ [][NextSchema]_vars

\* one hour and one minute, in hundredths of a second
Hour == 360000
Minute == 6000

\* a row of usage_costs
Fact(id, user_email, m, timestamp, input_tokens, output_tokens, total_cost, currency) ==
    [id |-> id, user_email |-> user_email, model |-> m, task |-> "chat",
     timestamp |-> timestamp, input_tokens |-> input_tokens,
     output_tokens |-> output_tokens, total_cost |-> total_cost,
     cost_currency |-> currency, model_used_by_cost_calculation |-> m]

\* rows of two users from 2024-01-04T23:59:59.99 to 2024-01-07T10:00:00, in
\* insertion order
StatsRows == <<
    Fact(1, "alice@example.com", "openai.gpt-4o", 3 * DayLength + (DayLength - 1),
         100, 10, "0.35000000", "USD"),
    Fact(2, "alice@example.com", "openai.gpt-4o", 4 * DayLength,
         200, 20, "0.70000000", "USD"),
    Fact(3, "bob@example.com", "yandexgpt.yandexgpt", 4 * DayLength + 12 * Hour,
         300, 30, "0.39600000", "RUB"),
    Fact(4, "alice@example.com", "openai.gpt-4o", 4 * DayLength + 23 * Hour + 59 * Minute,
         400, 40, "1.40000000", "USD"),
    Fact(5, "alice@example.com", "totally-unknown-model", 5 * DayLength,
         500, 50, "0E-8", ""),
    Fact(6, "alice@example.com", "openai.gpt-4o", 5 * DayLength + 9 * Hour,
         600, 60, "2.10000000", "USD"),
    Fact(7, "bob@example.com", "openai.gpt-4o", 6 * DayLength + 10 * Hour,
         700, 70, "2.45000000", "USD")
>>

\* the user_email arguments of get_usage_stats
StatsEmails == {None, "", "alice@example.com", "bob@example.com", "nobody@example.com"}

\* the start_date arguments: none, 2024-01-05T00:00, 2024-01-05T12:00, 2024-01-06T00:00
StatsStartDates == {<< >>, <<4 * DayLength>>, <<4 * DayLength + 12 * Hour>>, <<5 * DayLength>>}

\* the end_date arguments: none, 2024-01-04T00:00, 2024-01-05T00:00, 2024-01-05T12:00
StatsEndDates == {<< >>, <<3 * DayLength>>, <<4 * DayLength>>, <<4 * DayLength + 12 * Hour>>}

\* a database earlier requests have written the first rows of StatsRows to
InitStats ==
    /\ pc = "new"
    /\ model = ""
    /\ user = EmptyDict
    /\ task = ""
    /\ model_used_by_cost_calculation = None
    /\ model_pricing_data = EmptyDict
    /\ calls = << >>
    /\ costs = << >>
    /\ tasks = << >>
    /\ events = << >>
    /\ log = << >>
    /\ now = 1
    /\ engine \in [drivername : Drivernames]
    /\ catalog = SetUpCatalog(engine.drivername)
    /\ \E n \in 0..Len(StatsRows) : usage_costs = SubSeq(StatsRows, 1, n)
    /\ init_db_calls = 0
    /\ stats = << >>
    /\ match = << >>

\* a reporting process: it makes its manager and queries the table once
NextStats ==
    \/ UsagePersistenceManager
    \/ \E user_email \in StatsEmails, start_date \in StatsStartDates,
          end_date \in StatsEndDates :
          stats = << >> /\ get_usage_stats(user_email, start_date, end_date)

SpecStats == InitStats /\ [][NextStats]_vars

\* the keys of pricing tables: the source's, the source's with entries of other
\* providers for models it has (added after or before), and small tables whose
\* keys agree once normalized; the source's own table has no two such keys
TieTables ==
    {pricing_keys,
     pricing_keys \o <<"azure.gpt-4o", "vertex.claude-3-opus">>,
     <<"azure.gpt-4o", "vertex.claude-3-opus">> \o pricing_keys,
     <<"a.gpt-4", "b.gpt-4", "c.gpt-4">>,
     <<"c.gpt-4", "b.gpt-4", "a.gpt-4">>,
     <<"b.gpt-4", "a.gpt-4-turbo", "c.gpt-4", "d.gpt-4-turbo">>,
     <<"OpenAI.GPT-4", "openai.gpt-4">>,
     <<"openai.gpt-4", "OpenAI.GPT-4">>,
     <<"openai.", "gpt-4", "azure.">>}

\* the names looked up in them
TieQueries ==
    {"gpt-4o", "myprovider.gpt-4o-mini", "openai.gpt-4", "OPENAI.GPT-4-0613",
     "x.claude-3-opus-20240229", "gpt-4-turbo-preview", "z.gpt-4-turbo", "nothing", ""}

\* lookups in tables of every kind
NextTies ==
    \E keys \in TieTables, query \in TieQueries, strip_prefix \in BOOLEAN :
        FindBestMatch(keys, query, strip_prefix)

SpecTies == Init /\ [][NextTies]_vars

(***************************************************************************)
(* What the properties below speak of.                                     *)
(***************************************************************************)

\* the requested name, lowercased and trimmed
Normalized == strip(lower(model))

\* x without the text up to and including its first '.'
AfterFirstDot(x) ==
    IF \E i \in 1..Len(x) : CharAt(x, i) = "."
    THEN LET d == CHOOSE i \in 1..Len(x) :
                     CharAt(x, i) = "." /\ \A j \in 1..(i - 1) : CharAt(x, j) # "."
         IN  SubSeq(x, d + 1, Len(x))
    ELSE x

AllKeys == {pricing_data[i].key : i \in 1..Len(pricing_data)}

\* every table key without its provider prefix
StrippedKey == [k \in AllKeys |-> AfterFirstDot(k)]

\* the table keys that are a prefix of name n
PrefixesOf(n) == {k \in AllKeys : startswith(n, k)}

\* the table keys whose stripped form is a prefix of name n
StrippedPrefixesOf(n) == {k \in AllKeys : StrippedKey[k] # "" /\ startswith(n, StrippedKey[k])}

\* the table keys that are a prefix of the normalized name
FullCandidates == PrefixesOf(Normalized)

\* the table keys whose stripped form is a prefix of the stripped normalized name
StrippedCandidates == StrippedPrefixesOf(AfterFirstDot(Normalized))

\* the table's record for key k
RecordOf(k) == (CHOOSE i \in 1..Len(pricing_data) : pricing_data[i].key = k)

\* the tasks running coroutine coro
TasksOf(coro) == {i \in 1..Len(tasks) : tasks[i].coro = coro}

\* the rows this request inserted (the clock starts at 1 with the request)
RequestRows == {i \in 1..Len(usage_costs) : usage_costs[i].timestamp >= 1}

(***************************************************************************)
(* The properties.                                                         *)
(***************************************************************************)

\* C1: when some table key is a prefix of the lowercased, trimmed model name,
\* get_model_data returns a key that is such a prefix, no such prefix is longer,
\* and the record returned is the table's record of that key; a name equal to a
\* key resolves to that key.
C1_LongestPrefix ==
    LET n == Normalized
        full == PrefixesOf(n)
    IN  (pc # "new" /\ full # {}) =>
            /\ model_used_by_cost_calculation \in full
            /\ \A k \in full : Len(k) <= Len(model_used_by_cost_calculation)
            /\ model_pricing_data = pricing_data[RecordOf(model_used_by_cost_calculation)].data
            /\ (n \in AllKeys => model_used_by_cost_calculation = n)

\* C1's case: a name with two keys as prefixes resolved to the longer one
C1_Witness ==
    /\ pc # "new"
    /\ model = "openai.gpt-4o-2024-05-13-extra"
    /\ Cardinality(FullCandidates) >= 2
    /\ model_used_by_cost_calculation = "openai.gpt-4o-2024-05-13"

\* C2: when no table key is a prefix of the normalized name, the key returned is
\* one whose form without provider prefix is a prefix of the name without its
\* provider prefix, no such stripped key being longer; when a key is a prefix of
\* the full name the result is among those keys, whatever the stripped search
\* would find.
C2_StrippedFallback ==
    LET n == Normalized
        full == PrefixesOf(n)
        stripped == StrippedPrefixesOf(AfterFirstDot(n))
    IN  pc # "new" =>
            /\ (full = {} /\ stripped # {}) =>
                  /\ model_used_by_cost_calculation \in stripped
                  /\ \A k \in stripped :
                        Len(StrippedKey[k]) <= Len(StrippedKey[model_used_by_cost_calculation])
                  /\ model_pricing_data
                        = pricing_data[RecordOf(model_used_by_cost_calculation)].data
            /\ full # {} => model_used_by_cost_calculation \in full
            /\ model = "customprovider.claude-3-opus" =>
                  model_used_by_cost_calculation = "anthropic.claude-3-opus"

\* C2's case: an unregistered provider, resolved through the stripped search
C2_Witness ==
    /\ pc # "new"
    /\ model = "customprovider.claude-3-opus"
    /\ FullCandidates = {}
    /\ model_used_by_cost_calculation = "anthropic.claude-3-opus"

\* C3: when neither search has a candidate, get_model_data returns "unknown" with
\* the empty record, and calculate_costs returns cost 0, currency "" and key
\* "unknown" whatever the token counts.
C3_UnknownIsFree ==
    LET n == Normalized
    IN  (pc # "new" /\ PrefixesOf(n) = {} /\ StrippedPrefixesOf(AfterFirstDot(n)) = {}) =>
            /\ model_used_by_cost_calculation = "unknown"
            /\ model_pricing_data = EmptyDict
            /\ costs # << >> => costs[1].c = 0 /\ costs[2] = "" /\ costs[3] = "unknown"

\* C3's case: costs were calculated for an unknown model and nonzero token counts
C3_Witness ==
    /\ model = "totally-unknown-model"
    /\ FullCandidates = {} /\ StrippedCandidates = {}
    /\ costs # << >>
    /\ calls[1].args.input_tokens = 1000 /\ calls[1].args.generated_tokens = 500

\* C4: every usage fact handed to log_usage_fact names, as the model used by the
\* cost calculation, a key of the pricing table or "unknown", and with "unknown"
\* its total cost is zero.
C4_FactNamesTableKey ==
    \A i \in TasksOf("log_usage_fact") :
        /\ tasks[i].args.model_used_by_cost_calculation \in AllKeys \cup {"unknown"}
        /\ tasks[i].args.model_used_by_cost_calculation = "unknown" =>
              tasks[i].args.total_cost.c = 0

\* C4's case: facts were handed over for an unknown model with tokens, and (in
\* another run) for a name that is no key itself
C4_Witness ==
    \E i \in TasksOf("log_usage_fact") :
        /\ tasks[i].args.input_tokens = 1000
        /\ tasks[i].args.model_used_by_cost_calculation = "unknown"
        /\ tasks[i].args.model = "totally-unknown-model-extra"

\* the exact cost of the latest call as a numerator over 10^-LeastExp: tokens
\* times the rates of the resolved record
ExactScale ==
    Min(rate_of(model_pricing_data, "input_cost_per_token").e,
        rate_of(model_pricing_data, "output_cost_per_token").e)

ExactCost ==
    LET a == calls[Len(calls)].args
        ri == rate_of(model_pricing_data, "input_cost_per_token")
        ro == rate_of(model_pricing_data, "output_cost_per_token")
    IN  a.input_tokens * ri.c * Pow10(ri.e - ExactScale)
        + a.generated_tokens * ro.c * Pow10(ro.e - ExactScale)

\* C5: calculate_costs returns input tokens times input rate plus output tokens
\* times output rate, rounded half-up to 8 fractional digits; rates 0.003 and
\* 0.015 with 1000 and 500 tokens give 10.50000000; the status task and the usage
\* fact of the call both get this value.
C5_RoundedCost ==
    costs # << >> =>
        LET total_cost == costs[1]
            k == (-8) - ExactScale
        IN  /\ total_cost.e = -8
            /\ IF k <= 0 THEN total_cost.c = ExactCost * Pow10(-k)
               ELSE /\ 2 * ExactCost >= (2 * total_cost.c - 1) * Pow10(k)
                    /\ 2 * ExactCost < (2 * total_cost.c + 1) * Pow10(k)
            /\ ( /\ rate_of(model_pricing_data, "input_cost_per_token") = Dec(3, -3)
                 /\ rate_of(model_pricing_data, "output_cost_per_token") = Dec(15, -3)
                 /\ calls[Len(calls)].args.input_tokens = 1000
                 /\ calls[Len(calls)].args.generated_tokens = 500 )
               => DecimalStr(total_cost) = "10.50000000"
            /\ \A i \in 1..Len(tasks) : tasks[i].call = Len(calls) =>
                  IF tasks[i].coro = "log_usage_fact"
                  THEN tasks[i].args.total_cost = total_cost
                  ELSE tasks[i].args.current_cost = total_cost

\* C5's case: the cost of 1000 and 500 tokens at rates 0.003 and 0.015
C5_Witness ==
    /\ costs # << >>
    /\ model_used_by_cost_calculation = "anthropic.claude-3-sonnet"
    /\ calls[1].args.input_tokens = 1000 /\ calls[1].args.generated_tokens = 500
    /\ costs[1] = Dec(1050000000, -8)
    /\ TasksOf("log_usage_fact") # {}

\* C6: no failure of the status emission or of the persistence, a failure raised
\* while the usage fact is prepared included, reaches the caller of
\* calculate_costs_update_status_and_persist: every call returns normally.
C6_NoFailureReachesCaller ==
    \A k \in 1..Len(calls) : calls[k].result = "returned"

\* the log_usage_fact tasks call number k created
PersistTasksOf(k) == {i \in TasksOf("log_usage_fact") : tasks[i].call = k}

\* C7 as stated: over any sequence of coordinator calls of one request exactly one
\* row is inserted: never more than one, and one once a call with persist_usage
\* has returned and every task has run without failing.
C7_ExactlyOneRowPerRequest ==
    /\ Cardinality(RequestRows) <= 1
    /\ ( /\ \E k \in 1..Len(calls) :
               calls[k].args.persist_usage /\ calls[k].result = "returned"
         /\ \A i \in 1..Len(tasks) : tasks[i].state = "done" )
       => Cardinality(RequestRows) = 1

\* C7 as amended: a call with persist_usage that returns creates exactly one
\* log_usage_fact task and any other call none; the rows of the request are as
\* many as the log_usage_fact tasks that committed; and no step changes or
\* removes a row the table holds.
C7_OneInsertPerPersistCall ==
    /\ [](/\ \A k \in 1..Len(calls) :
                Cardinality(PersistTasksOf(k)) =
                    IF calls[k].args.persist_usage /\ calls[k].result = "returned"
                    THEN 1 ELSE 0
          /\ Cardinality(RequestRows) =
                Cardinality({i \in TasksOf("log_usage_fact") : tasks[i].state = "done"}))
    /\ [][ /\ Len(usage_costs') >= Len(usage_costs)
           /\ \A r \in 1..Len(usage_costs) : usage_costs'[r] = usage_costs[r] ]_vars

\* C7's case: two calls with persist_usage, both inserts committed: two rows
C7_Witness ==
    /\ Len(calls) = 2
    /\ \A k \in 1..2 : calls[k].args.persist_usage /\ calls[k].result = "returned"
    /\ Cardinality(RequestRows) = 2

\* C8: a step in which an insert fails logs the error, fails that task alone,
\* adds no row and no task (no second attempt), and leaves every other task, the
\* emitted events, the calls' outcomes and the request's progress as they were;
\* a failed task never runs again.
C8_InsertFailureIsolated ==
    [][ \A i \in 1..Len(tasks) :
          /\ ( tasks[i].coro = "log_usage_fact" /\ tasks[i].state = "pending"
               /\ Len(tasks') >= i /\ tasks'[i].state = "failed" )
             => /\ usage_costs' = usage_costs
                /\ log' = Append(log, "Database error in log_usage_fact")
                /\ tasks' = [tasks EXCEPT ![i].state = "failed"]
                /\ events' = events
                /\ calls' = calls
                /\ pc' = pc
          /\ tasks[i].state = "failed" => (Len(tasks') >= i /\ tasks'[i] = tasks[i]) ]_vars

\* C8's case: an insert failed, and the status task of the same call delivered
\* its event and the request completed all the same
C8_Witness ==
    /\ pc = "done"
    /\ log # << >>
    /\ \E i \in TasksOf("log_usage_fact") :
          /\ tasks[i].state = "failed"
          /\ RequestRows = {}
          /\ \E j \in TasksOf("update_status_message") :
                /\ tasks[j].call = tasks[i].call
                /\ tasks[j].state = "done"
                /\ \E e \in 1..Len(events) : events[e].by = j

\* C9: the done flag of an emitted status event is true exactly when the status
\* label of the call is "Completed", "Stopped" or empty.
C9_DoneFlag ==
    \A e \in 1..Len(events) :
        LET status == tasks[events[e].by].args.status
        IN  events[e].event.data.done <=>
                (status = "Completed" \/ status = "Stopped" \/ status = "")

\* C9's case: a final and a non-final label were emitted
C9_Witness ==
    \E e \in 1..Len(events) :
        /\ tasks[events[e].by].args.status = "Stopped"
        /\ events[e].event.data.done

\* s.split(sep)
RECURSIVE SplitOn(_, _)
SplitOn(s, sep) ==
    IF find(s, sep) = 0 THEN <<s>>
    ELSE <<SubSeq(s, 1, find(s, sep) - 1)>>
         \o SplitOn(SubSeq(s, find(s, sep) + Len(sep), Len(s)), sep)

endswith(s, suffix) ==
    Len(suffix) <= Len(s) /\ SubSeq(s, Len(s) - Len(suffix) + 1, Len(s)) = suffix

Digits == {"0", "1", "2", "3", "4", "5", "6", "7", "8", "9"}

\* which segment of a status description seg is
SegmentKind(seg) ==
    IF startswith(seg, "Cost ") THEN "cost"
    ELSE IF startswith(seg, "including ") /\ endswith(seg, " Reasoning Tokens") THEN "reasoning"
    ELSE IF endswith(seg, " Input Tokens") THEN "input"
    ELSE IF endswith(seg, " Generated Tokens") THEN "generated"
    ELSE IF seg # "" /\ CharAt(seg, 1) \in Digits /\ endswith(seg, "s") THEN "elapsed"
    ELSE "label"

\* the kinds of segment a call with arguments a must show, in the fixed order
ExpectedKinds(a) ==
    (IF a.start_time # 0 THEN <<"elapsed">> ELSE << >>)
    \o <<"input", "generated">>
    \o (IF a.reasoning_tokens # 0 THEN <<"reasoning">> ELSE << >>)
    \o (IF \E p \in 1..(Len(a.status) - 8) : SubSeq(a.status, p, p + 8) = "Requested"
        THEN << >> ELSE <<"cost">>)
    \o (IF a.status # "" THEN <<"label">> ELSE << >>)

\* C10: the description of an emitted status event, split at " | ", is the
\* segments elapsed seconds, input tokens, generated tokens, reasoning tokens,
\* cost, status label in that order, without the absent ones: the reasoning
\* segment is there exactly when the reasoning token count is nonzero, the cost
\* segment is missing exactly when the label contains "Requested", and the label
\* segment is the caller's label.
C10_DescriptionSegments ==
    \A e \in 1..Len(events) :
        LET a == tasks[events[e].by].args
            segments == SplitOn(events[e].event.data.description, " | ")
        IN  /\ [n \in 1..Len(segments) |-> SegmentKind(segments[n])] = ExpectedKinds(a)
            /\ a.status # "" => segments[Len(segments)] = a.status
            /\ \E n \in 1..Len(segments) :
                  segments[n] = ToString(a.input_tokens) \o " Input Tokens"
            /\ \E n \in 1..Len(segments) :
                  segments[n] = ToString(a.generated_tokens) \o " Generated Tokens"

\* C10's case: a "Requested" label with reasoning tokens: no cost segment, a
\* reasoning segment
C10_Witness ==
    \E e \in 1..Len(events) :
        LET a == tasks[events[e].by].args
        IN  /\ a.status = "Stream Requested"
            /\ a.reasoning_tokens = 7
            /\ a.start_time # 0
            /\ events[e].event.data.description
                 = "0.01s | 1000 Input Tokens | 500 Generated Tokens"
                   \o " | including 7 Reasoning Tokens | Stream Requested"

\* the catalog's objects of that type and name
ObjectsNamed(type, name) ==
    {i \in 1..Len(catalog) : catalog[i].type = type /\ catalog[i].name = name}

\* C11: _init_db is idempotent and destroys nothing: however many times it has
\* run, it has raised no error, the database holds exactly one table usage_costs
\* and exactly one index idx_user_email, on that table; a run of _init_db leaves
\* every row of the table as it was, and from the second run on the catalog too.
C11_InitDbIdempotent ==
    /\ [](init_db_calls >= 1 =>
            /\ Cardinality(ObjectsNamed("table", "usage_costs")) = 1
            /\ Cardinality(ObjectsNamed("index", "idx_user_email")) = 1
            /\ \A i \in ObjectsNamed("index", "idx_user_email") :
                  catalog[i].tbl_name = "usage_costs"
            /\ Len(catalog) = 2
            /\ \A l \in 1..Len(log) : log[l] # "Database error in _init_db")
    /\ [][init_db_calls' # init_db_calls =>
            /\ usage_costs' = usage_costs
            /\ log' = log
            /\ init_db_calls >= 1 => catalog' = catalog]_vars

\* C11's case: _init_db ran three times, the table holding an earlier request's
\* row throughout, and this request's row is in the table as well
C11_Witness ==
    /\ init_db_calls = MaxInitDb + 1
    /\ Len(usage_costs) = 2
    /\ usage_costs[1] = EarlierRow
    /\ Len(catalog) = 2

\* the calendar day of a datetime, counted from 2024-01-01
DayOf(t) == t \div DayLength

\* whether C12 has row r counted by a query with arguments a
C12_Counts(r, a) ==
    /\ a.user_email \notin {None, ""} => usage_costs[r].user_email = a.user_email
    /\ a.start_date # << >> => usage_costs[r].timestamp >= a.start_date[1]
    /\ a.end_date # << >> => DayOf(usage_costs[r].timestamp) <= DayOf(a.end_date[1])

\* the rows of the same user, model, currency and day as row r
GroupOf(r) ==
    {q \in 1..Len(usage_costs) :
        /\ usage_costs[q].user_email = usage_costs[r].user_email
        /\ usage_costs[q].model = usage_costs[r].model
        /\ usage_costs[q].cost_currency = usage_costs[r].cost_currency
        /\ DayOf(usage_costs[q].timestamp) = DayOf(usage_costs[r].timestamp)}

\* the entries of the latest summary that report the group of row r
EntriesOf(r) ==
    {i \in 1..Len(stats.summary) :
        /\ stats.summary[i].user_email = usage_costs[r].user_email
        /\ stats.summary[i].model = usage_costs[r].model
        /\ stats.summary[i].currency = usage_costs[r].cost_currency
        /\ stats.summary[i].date
             = "2024-01-" \o Pad(DayOf(usage_costs[r].timestamp) + 1, 2)}

\* C12: the summary get_usage_stats returns counts a usage fact exactly when the
\* fact is of the user asked for (when one is asked for), is not earlier than
\* start_date (when given) and lies on end_date's calendar day or an earlier one
\* (when given): a fact at 2024-01-05T23:59:00 is counted with end_date
\* 2024-01-05, no fact of a later calendar day is.
C12_DateAndUserFilter ==
    (stats # << >> /\ ~stats.raised) =>
        \A r \in 1..Len(usage_costs) :
            LET counted == {q \in GroupOf(r) : C12_Counts(q, stats.args)}
            IN  IF counted = {} THEN EntriesOf(r) = {}
                ELSE /\ Cardinality(EntriesOf(r)) = 1
                     /\ \A i \in EntriesOf(r) :
                           /\ stats.summary[i].total_input_tokens
                                = sum_int(usage_costs, counted, "input_tokens")
                           /\ stats.summary[i].total_output_tokens
                                = sum_int(usage_costs, counted, "output_tokens")

\* the normalized form the latest lookup compares: lowercased, and without the
\* provider prefix when the lookup strips it
MatchForm(x) == IF match.strip_prefix THEN AfterFirstDot(lower(x)) ELSE lower(x)

\* the candidates of the latest lookup: the positions of the keys whose
\* normalized form is a non-empty prefix of the normalized query
MatchCandidates ==
    {i \in 1..Len(match.keys) :
        /\ MatchForm(match.keys[i]) # ""
        /\ startswith(MatchForm(match.query), MatchForm(match.keys[i]))}

\* the candidates of the greatest normalized length
LongestCandidates ==
    {i \in MatchCandidates :
        \A j \in MatchCandidates :
            Len(MatchForm(match.keys[j])) <= Len(MatchForm(match.keys[i]))}

\* C13: _find_best_match returns, of the candidates of the greatest normalized
\* length, the one that comes first in the table's iteration order (and None
\* when there is no candidate): a later candidate of the same length does not
\* replace it.
C13_FirstOfLongestWins ==
    match # << >> =>
        IF MatchCandidates = {} THEN match.best_match = None
        ELSE \E i \in LongestCandidates :
                /\ match.best_match = match.keys[i]
                /\ \A j \in LongestCandidates : i <= j

\* C13's case: three keys of the same normalized length were candidates, and the
\* first of them in the table, not the first in the alphabet, was returned
C13_Witness ==
    /\ match # << >>
    /\ match.keys = <<"c.gpt-4", "b.gpt-4", "a.gpt-4">>
    /\ match.strip_prefix
    /\ Cardinality(LongestCandidates) = 3
    /\ match.best_match = "c.gpt-4"

\* the update_status_message tasks call number k created
StatusTasksOf(k) == {i \in TasksOf("update_status_message") : tasks[i].call = k}

\* C14: the two tasks of one call carry the same values, those of the one cost
\* calculation of the call: total cost, currency, input and generated token
\* counts agree between the status task and the usage fact; the fact's model is
\* the model name as requested and its model_used_by_cost_calculation the key
\* resolved at construction, which no later step changes; the event emitted and
\* the row inserted show these values.
C14_OneCalculationFeedsBoth ==
    /\ [](\A k \in 1..Len(calls) :
            /\ Cardinality(StatusTasksOf(k)) = 1
            /\ \A s \in StatusTasksOf(k) :
                  /\ tasks[s].args.input_tokens = calls[k].args.input_tokens
                  /\ tasks[s].args.generated_tokens = calls[k].args.generated_tokens
                  /\ k = Len(calls) =>
                        /\ tasks[s].args.current_cost = costs[1]
                        /\ tasks[s].args.cost_currency = costs[2]
                  /\ \A l \in PersistTasksOf(k) :
                        /\ tasks[l].args.total_cost = tasks[s].args.current_cost
                        /\ tasks[l].args.cost_currency = tasks[s].args.cost_currency
                        /\ tasks[l].args.input_tokens = tasks[s].args.input_tokens
                        /\ tasks[l].args.output_tokens = tasks[s].args.generated_tokens
                        /\ tasks[l].args.model = model
                        /\ tasks[l].args.model_used_by_cost_calculation
                             = model_used_by_cost_calculation
                        /\ s < l
                        /\ tasks[l].state = "done" =>
                              \E r \in RequestRows :
                                  /\ usage_costs[r].model = model
                                  /\ usage_costs[r].model_used_by_cost_calculation
                                       = model_used_by_cost_calculation
                                  /\ usage_costs[r].total_cost
                                       = DecimalStr(tasks[s].args.current_cost)
                                  /\ usage_costs[r].cost_currency
                                       = tasks[s].args.cost_currency
                                  /\ usage_costs[r].input_tokens
                                       = calls[k].args.input_tokens
                                  /\ usage_costs[r].output_tokens
                                       = calls[k].args.generated_tokens)
    /\ [][pc # "new" =>
            /\ model_used_by_cost_calculation' = model_used_by_cost_calculation
            /\ model_pricing_data' = model_pricing_data
            /\ model' = model]_vars

\* C14's case: a name that is no key itself, resolved to a key at construction;
\* a call with tokens whose status event and usage row both show the cost 0.30
C14_Witness ==
    /\ model = "YandexGPT.YandexGPT-Lite "
    /\ model_used_by_cost_calculation = "yandexgpt.yandexgpt-lite"
    /\ Len(calls) = 1
    /\ calls[1].args.input_tokens = 1000 /\ calls[1].args.generated_tokens = 500
    /\ costs[1] = Dec(30000000, -8)
    /\ \E r \in RequestRows :
          /\ usage_costs[r].model = "YandexGPT.YandexGPT-Lite "
          /\ usage_costs[r].total_cost = "0.30000000"
    /\ \E e \in 1..Len(events) :
          contains(events[e].event.data.description, "Cost 0.30₽")

====
